---- MODULE Spec2Model ----
(***************************************************************************)
(* Session layer of vrchatapi-node (src/src/index.ts): the cookie jar kept *)
(* in an expiring cache, the request/response interceptors that read and   *)
(* write it, and VRChat.login.                                             *)
(*                                                                         *)
(* Time is Date.now() in milliseconds.  The cache (catbox ClientApi), the  *)
(* generated operations getCurrentUser / verify2Fa, the fetch transport    *)
(* and the code provider are collaborators: what they answer is chosen     *)
(* nondeterministically.  Every asynchronous function is cut at its        *)
(* awaits: one action is the synchronous run between two awaits.           *)
(***************************************************************************)
EXTENDS Integers, Sequences, FiniteSets, TLC

\* ------------------------------------------------------------------ bounds
MaxTime == 2        \* Date.now() advances at most MaxTime times
MaxIssued == 2      \* calls an outside caller issues through the client

\* --------------------------------------------------------------- constants
MsPerSec == 1000    \* "* 1000" of max-age
CodeLength == 6     \* "code.length === 6"
TooManyRequests == 429

\* JS values that are not numbers / not present
NullTime == 0 - 1   \* expires: null
Infinity == 0 - 2   \* the ttl Infinity
NaN == 0 - 3        \* Number("x"), new Date("x").getTime()

Origins == {"https://vrchat.com", "https://other.example"}
BaseOrigin == "https://vrchat.com"
CallIds == {1, 2}
LoginCall == 1      \* login awaits each of its calls: one is in flight
Names == {"a", "b"}

\* ---------------------------------------------------------------- strings
\* A string is the sequence of its characters.  A date string is written
\* "T<d>": the date d seconds after the epoch.

Undefined == <<"undefined">>    \* no string at all: not a sequence of characters

UpperChars == << "A", "B", "C", "D", "E", "F", "G", "H", "I", "J", "K", "L", "M",
                 "N", "O", "P", "Q", "R", "S", "T", "U", "V", "W", "X", "Y", "Z" >>
LowerChars == << "a", "b", "c", "d", "e", "f", "g", "h", "i", "j", "k", "l", "m",
                 "n", "o", "p", "q", "r", "s", "t", "u", "v", "w", "x", "y", "z" >>
DigitChars == << "0", "1", "2", "3", "4", "5", "6", "7", "8", "9" >>

IsDigit(ch) == \E i \in 1..Len(DigitChars) : DigitChars[i] = ch
DigitValue(ch) == (CHOOSE i \in 1..Len(DigitChars) : DigitChars[i] = ch) - 1

\* String.prototype.split(ch)
RECURSIVE SplitOn(_, _)
SplitOn(str, ch) ==
    IF \A i \in 1..Len(str) : str[i] # ch THEN <<str>>
    ELSE LET k == CHOOSE i \in 1..Len(str) :
                     str[i] = ch /\ \A j \in 1..(i - 1) : str[j] # ch
         IN  <<SubSeq(str, 1, k - 1)>> \o SplitOn(SubSeq(str, k + 1, Len(str)), ch)

\* Array.prototype.join(sep)
RECURSIVE JoinWith(_, _)
JoinWith(parts, sep) ==
    IF parts = <<>> THEN <<>>
    ELSE IF Len(parts) = 1 THEN parts[1]
    ELSE parts[1] \o sep \o JoinWith(Tail(parts), sep)

\* String.prototype.trim()
RECURSIVE Trim(_)
Trim(str) ==
    IF str = <<>> THEN str
    ELSE IF Head(str) = " " THEN Trim(Tail(str))
    ELSE IF str[Len(str)] = " " THEN Trim(SubSeq(str, 1, Len(str) - 1))
    ELSE str

\* String.prototype.toLowerCase()
ToLowerCase(str) ==
    [i \in 1..Len(str) |->
        IF \E k \in 1..Len(UpperChars) : UpperChars[k] = str[i]
        THEN LowerChars[CHOOSE k \in 1..Len(UpperChars) : UpperChars[k] = str[i]]
        ELSE str[i]]

RECURSIVE DecimalValue(_)
DecimalValue(digits) ==
    IF digits = <<>> THEN 0
    ELSE 10 * DecimalValue(SubSeq(digits, 1, Len(digits) - 1))
         + DigitValue(digits[Len(digits)])

\* Number(str) of a string or undefined
NumberOf(str) ==
    IF str = Undefined THEN NaN
    ELSE LET t == Trim(str)
         IN  IF \A i \in 1..Len(t) : IsDigit(t[i]) THEN DecimalValue(t) ELSE NaN

\* new Date(str).getTime()
DateGetTime(str) ==
    IF Len(str) = 2 /\ str[1] = "T" /\ IsDigit(str[2])
    THEN DigitValue(str[2]) * MsPerSec
    ELSE NaN

\* JS truthiness of a string | undefined
TruthyString(str) == str # Undefined /\ str # <<>>

\* The Set-Cookie headers of the responses: "a=1", "a=2; Max-Age=1" and
\* "b=1; Expires=T2"
SetCookieHeaders ==
    { << "a", "=", "1" >>,
      << "a", "=", "2", ";", " ", "M", "a", "x", "-", "A", "g", "e", "=", "1" >>,
      << "b", "=", "1", ";", " ", "E", "x", "p", "i", "r", "e", "s", "=", "T", "2" >> }

HasMaxAge(header) == \E i \in 1..Len(header) : header[i] = "M"

\* headers.getSetCookie(): no Set-Cookie, one, or two (a max-age cookie
\* followed by one without max-age: the same name twice, or two names)
SetCookieLists ==
    {<<>>} \cup {<<h>> : h \in SetCookieHeaders}
           \cup {<<h, g>> : h \in {x \in SetCookieHeaders : HasMaxAge(x)},
                            g \in {x \in SetCookieHeaders : ~HasMaxAge(x)}}

\* the responses to login's calls carry at most one Set-Cookie
LoginSetCookieLists == {sc \in SetCookieLists : Len(sc) <= 1}

VARIABLES
    now,       \* Date.now()
    ready,      \* this.credentials.isReady()
    store,      \* the cache: origin -> entry of id "cookies"
    calls,      \* the calls in flight through this.client
    issued,     \* calls issued so far by outside callers
    logEnabled, \* log.enabled
    login       \* the activation of VRChat.login

vars == <<now, ready, store, calls, issued, logEnabled, login>>

\* ------------------------------------------------------------ cookie model

\* JS truthiness of a number | null
Truthy(n) == n # NullTime /\ n # 0 /\ n # NaN

\* a.expires?.valueOf() || 0
OrZero(n) == IF Truthy(n) THEN n ELSE 0

Max(a, b) == IF a >= b THEN a ELSE b

\* one option of a cookie: const [name, value] = option.split("=")
OptionOf(option) ==
    LET parts == SplitOn(option, "=")
    IN  [key |-> ToLowerCase(Trim(parts[1])),
         value |-> IF Len(parts) >= 2 THEN parts[2] ELSE Undefined]

\* options[key] of Object.fromEntries(entries): the last entry of the key wins
OptionValue(entries, key) ==
    LET at == {i \in 1..Len(entries) : entries[i].key = key}
    IN  IF at = {} THEN Undefined
        ELSE entries[CHOOSE i \in at : \A j \in at : j <= i].value

\* Date.now() + Number(options["max-age"]) * 1000
MaxAgeExpires(maxAge, t) ==
    LET seconds == NumberOf(maxAge)
    IN  IF seconds = NaN THEN NaN ELSE t + seconds * MsPerSec

\* the expires of deseralizeCookie
ExpiresOf(entries, t) ==
    LET maxAge == OptionValue(entries, <<"m", "a", "x", "-", "a", "g", "e">>)
        expires == OptionValue(entries, <<"e", "x", "p", "i", "r", "e", "s">>)
    IN  IF TruthyString(maxAge) THEN MaxAgeExpires(maxAge, t)
        ELSE IF TruthyString(expires) THEN DateGetTime(expires)
        ELSE NullTime

\* The options are kept in the cache entry but never read again: they are
\* left out of the entry here.
deseralizeCookie(cookie, t) ==
    LET parts == SplitOn(cookie, "=")
        rest == SplitOn(JoinWith(Tail(parts), <<"=">>), ";")
        entries == [i \in 1..(Len(rest) - 1) |-> OptionOf(rest[i + 1])]
    IN  [name    |-> Head(parts),
         value   |-> Head(rest),
         expires |-> ExpiresOf(entries, t)]

serializeCookie(c) == c.name \o <<"=">> \o c.value

serializeCookies(cookies) ==
    JoinWith([i \in 1..Len(cookies) |-> serializeCookie(cookies[i])], <<";", " ">>)

\* ------------------------------------------------------------- cookie jar

\* the filter of getCookies
GetCookiesKeeps(expires, t) ==
    IF Truthy(expires) THEN expires <= t ELSE TRUE

\* what getCookies returns for the cache answer `value` at time t
getCookiesFilter(value, t) ==
    IF ~value.found THEN <<>>
    ELSE SelectSeq(value.item, LAMBDA c : GetCookiesKeeps(c.expires, t))

\* { ...cookies, [name]: entry }: an own key keeps its place, a new one is last
Overlay(cookies, e) ==
    IF \E i \in 1..Len(cookies) : cookies[i].name = e.name
    THEN [i \in 1..Len(cookies) |->
             IF cookies[i].name = e.name THEN e ELSE cookies[i]]
    ELSE Append(cookies, e)

RECURSIVE MergeCookies(_, _, _)
MergeCookies(cookies, headers, t) ==
    IF headers = <<>> THEN cookies
    ELSE MergeCookies(Overlay(cookies, deseralizeCookie(Head(headers), t)),
                      Tail(headers), t)

\* the callback of values.reduce
ReducePick(a, b) == IF OrZero(a.expires) > OrZero(b.expires) THEN a ELSE b

RECURSIVE ReduceFrom(_, _)
ReduceFrom(acc, rest) ==
    IF rest = <<>> THEN acc
    ELSE ReduceFrom(ReducePick(acc, Head(rest)), Tail(rest))

\* const { expires } = values.reduce(...)   (values is not empty)
ReducedExpires(values) == ReduceFrom(Head(values), Tail(values)).expires

\* expires ? Math.max(expires - Date.now(), 0) : Infinity
SaveTtl(values, t) ==
    LET expires == ReducedExpires(values)
    IN  IF Truthy(expires) THEN Max(expires - t, 0) ELSE Infinity

\* ------------------------------------------------------------------ cache

NoEntry == [found |-> FALSE, item |-> <<>>, ttl |-> Infinity, stored |-> 0]

\* CacheGet with one segment for every origin
CacheGet_OneSegment(o) == store[BaseOrigin]

\* this.credentials.get({ segment: origin, id: "cookies" })
CacheGet(o) == store[o]

\* this.credentials.set({ segment, id }, cookies, ttl)
CacheSet(o, cookies, ttl) ==
    [store EXCEPT ![o] =
        [found |-> TRUE, item |-> cookies, ttl |-> ttl, stored |-> now]]

\* -------------------------------------------------------------- the calls

NoResponse == [status |-> 0, body |-> "none", setCookie |-> <<>>]
NoPending == [cookies |-> <<>>, ttl |-> Infinity, at |-> 0]

\* the interceptors of client.interceptors, in the order of their use();
\* a call keeps in `ran` the ones that have begun
RequestInterceptors == << "request logging", "cookie injection" >>
ResponseInterceptors == << "cookie capture", "response logging" >>

IdleCall ==
    [pc |-> "idle", op |-> "none", origin |-> BaseOrigin,
     credentials |-> "same-origin", authorization |-> FALSE,
     cookieSet |-> FALSE, cookie |-> <<>>, reqReads |-> 0,
     stage |-> "request", value |-> NoEntry,
     cookies |-> <<>>, readAt |-> NullTime,
     response |-> NoResponse, pending |-> NoPending, sets |-> 0,
     ran |-> <<>>, outcome |-> "none"]

NewCall(op, o, cred, auth) ==
    [IdleCall EXCEPT !.pc = "req_log", !.op = op, !.origin = o,
                     !.credentials = cred, !.authorization = auth]

Bodies(op) ==
    IF op = "verify2Fa" THEN {"verified", "unverified", "error"}
    ELSE {"user", "requiresTwoFactorAuth", "error", "not json"}

Statuses(op, body) ==
    IF op = "verify2Fa" THEN {200, 400, TooManyRequests}
    ELSE IF body \in {"user", "requiresTwoFactorAuth"} THEN {200} ELSE {401}

\* clone.json() of the logging interceptors succeeds
IsJson(body) == body # "not json"

\* ---------------------------------------------------------------- login

NoError == [message |-> "undefined", status_code |-> 0]

issue(message, status_code) == [message |-> message, status_code |-> status_code]

\* what an operation of the generated client resolves to: data or error
DataOf(response) ==
    IF response.body \in {"user", "requiresTwoFactorAuth", "verified", "unverified"}
    THEN response.body ELSE "undefined"

ErrorOf(response) ==
    IF DataOf(response) = "undefined"
    THEN [message |-> response.body, status_code |-> response.status]
    ELSE NoError

\* NoFactor counted as an answer with status 429
NoFactor_RateLimited ==
    [defined |-> TRUE, verified |-> FALSE, status |-> TooManyRequests]

\* one element of `factors`: undefined, or what verify2Fa resolved to
NoFactor == [defined |-> FALSE, verified |-> FALSE, status |-> 0]

FactorOf(response) ==
    [defined |-> TRUE, verified |-> response.body = "verified",
     status |-> response.status]

\* factors.find((value) => value?.data?.verified)?.data?.verified ?? false
Verified(factors) ==
    \E i \in 1..Len(factors) : factors[i].defined /\ factors[i].verified

\* factors.find((value) => value?.response.status === 429) ...
TooManyAttempts(factors) ==
    \E i \in 1..Len(factors) :
        factors[i].defined /\ factors[i].status = TooManyRequests

\* FactorError without the tooManyAttempts branch
FactorError_AlwaysInvalid(factors) ==
    issue("Invalid two-factor authentication code", 400)

\* the error of "if (!verified) return"
FactorError(factors) ==
    IF TooManyAttempts(factors)
    THEN issue("Too many attempts, try again later", TooManyRequests)
    ELSE issue("Invalid two-factor authentication code", 400)

\* ResolveProvider with the secret taking precedence over the supplied provider
ResolveProvider_SecretFirst(twoFactorSecret, twoFactorCode) ==
    IF twoFactorSecret \notin {"undefined", ""}
    THEN "totp"
    ELSE IF twoFactorCode # "undefined" THEN "caller" ELSE "none"

\* ResolveProvider deriving a TOTP provider whether or not a secret was given
ResolveProvider_AlwaysTotp(twoFactorSecret, twoFactorCode) ==
    IF twoFactorCode = "undefined" THEN "totp" ELSE "caller"

\* twoFactorCode after "if (twoFactorSecret && !twoFactorCode) twoFactorCode = ..."
ResolveProvider(twoFactorSecret, twoFactorCode) ==
    IF twoFactorSecret \notin {"undefined", ""} /\ twoFactorCode = "undefined"
    THEN "totp"
    ELSE IF twoFactorCode # "undefined" THEN "caller" ELSE "none"

\* lengths of the code a provider may answer (TOTP.generate: 6 digits)
CodeLengths(provider) ==
    IF provider = "totp" THEN {CodeLength} ELSE {CodeLength, CodeLength + 2}

\* getCurrentUser({ client, credentials: "omit", headers: { authorization } })
FirstCall == NewCall("getCurrentUser", BaseOrigin, "omit", TRUE)

\* verify2Fa({ client, body: { code } })
FactorCall == NewCall("verify2Fa", BaseOrigin, "same-origin", FALSE)

\* SecondCall repeating the options of the first call
SecondCall_AsFirst == FirstCall

\* getCurrentUser({ client: this.client })
SecondCall == NewCall("getCurrentUser", BaseOrigin, "same-origin", FALSE)

\* the trace of what login did: a call as it was issued, or the provider;
\* login.answers keeps the Set-Cookie headers of the answers login has taken
Event(call) ==
    [ev |-> call.op, credentials |-> call.credentials,
     authorization |-> call.authorization]

ProviderEvent ==
    [ev |-> "twoFactorCode", credentials |-> "none", authorization |-> FALSE]

\* FirstOutcome with "if (data)" for the factor-required test
FirstOutcome_AnyData(data, error, provider) ==
    IF error # NoError THEN "error"
    ELSE IF data # "undefined"
         THEN IF provider = "none" THEN "missing" ELSE "code"
         ELSE "direct"

\* which statement of login follows the first getCurrentUser
FirstOutcome(data, error, provider) ==
    IF error # NoError THEN "error"
    ELSE IF data = "requiresTwoFactorAuth"
         THEN IF provider = "none" THEN "missing" ELSE "code"
         ELSE "direct"

NoLogin ==
    [pc |-> "off", twoFactorSecret |-> "undefined", twoFactorCode |-> "undefined",
     provider |-> "none", invoked |-> 0, codeLength |-> 0,
     first |-> NoResponse, factors |-> <<>>,
     fetches |-> 0, verifies |-> 0, events |-> <<>>, answers |-> <<>>,
     data |-> "undefined", error |-> NoError, from |-> 0]

Init ==
    /\ now = 0
    /\ ready = FALSE
    /\ store = [o \in Origins |-> NoEntry]
    /\ calls = [c \in CallIds |-> IdleCall]
    /\ issued = 0
    /\ logEnabled \in BOOLEAN
    /\ login = NoLogin

\* --------------------------------------------------------- environment

\* Date.now() moves on
Tick ==
    /\ now < MaxTime * MsPerSec
    /\ now' = now + MsPerSec
    /\ UNCHANGED <<ready, store, calls, issued, logEnabled, login>>

\* "void credentials.start()" of the constructor completes
StartDone ==
    /\ ~ready
    /\ ready' = TRUE
    /\ UNCHANGED <<now, store, calls, issued, logEnabled, login>>

\* the cache drops an entry whose ttl has run out
Evict(o) ==
    /\ store[o].found
    /\ store[o].ttl # Infinity
    /\ now >= store[o].stored + store[o].ttl
    /\ store' = [store EXCEPT ![o] = NoEntry]
    /\ UNCHANGED <<now, ready, calls, issued, logEnabled, login>>

\* an outside caller calls an operation through vrchat.client
IssueRequest(c, o, cred) ==
    /\ login.pc = "off"
    /\ issued < MaxIssued
    /\ calls[c].pc = "idle"
    /\ calls' = [calls EXCEPT ![c] = NewCall("getCurrentUser", o, cred, FALSE)]
    /\ issued' = issued + 1
    /\ UNCHANGED <<now, ready, store, logEnabled, login>>

\* the caller takes the settled call
Deliver(c) ==
    /\ login.pc = "off"
    /\ calls[c].pc = "done"
    /\ calls' = [calls EXCEPT ![c] = IdleCall]
    /\ UNCHANGED <<now, ready, store, issued, logEnabled, login>>

\* ------------------------------------------------------------ interceptors

\* request interceptor 1: diagnostic logging
ReqLog(c) ==
    /\ calls[c].pc = "req_log"
    /\ calls' = [calls EXCEPT ![c].pc = "req_inject",
                              ![c].ran = Append(@, RequestInterceptors[1])]
    /\ UNCHANGED <<now, ready, store, issued, logEnabled, login>>

\* ReqInject without "if (credentials === "omit") return {}"
ReqInject_IgnoresOmit(c) ==
    /\ calls[c].pc = "req_inject"
    /\ calls' = [calls EXCEPT ![c] =
          [@ EXCEPT !.stage = "request",
                    !.ran = Append(@, RequestInterceptors[2]),
                    !.pc = IF ready THEN "get" ELSE "start"]]
    /\ UNCHANGED <<now, ready, store, issued, logEnabled, login>>

\* request interceptor 2 up to the first await of getCookies(request)
ReqInject(c) ==
    /\ calls[c].pc = "req_inject"
    /\ calls' = [calls EXCEPT ![c] =
          IF calls[c].credentials = "omit"
          THEN [@ EXCEPT !.cookieSet = TRUE,
                         !.cookie = serializeCookies(<<>>),
                         !.ran = Append(@, RequestInterceptors[2]),
                         !.pc = "fetch"]
          ELSE [@ EXCEPT !.stage = "request",
                         !.ran = Append(@, RequestInterceptors[2]),
                         !.pc = IF ready THEN "get" ELSE "start"]]
    /\ UNCHANGED <<now, ready, store, issued, logEnabled, login>>

\* AwaitStart going on without waiting for start() to complete
AwaitStart_NotAwaited(c) ==
    /\ calls[c].pc \in {"start", "start_set"}
    /\ calls' = [calls EXCEPT ![c].pc = IF @ = "start" THEN "get" ELSE "set"]
    /\ UNCHANGED <<now, ready, store, issued, logEnabled, login>>

\* await this.credentials.start()
AwaitStart(c) ==
    /\ calls[c].pc \in {"start", "start_set"}
    /\ ready' = TRUE
    /\ calls' = [calls EXCEPT ![c].pc = IF @ = "start" THEN "get" ELSE "set"]
    /\ UNCHANGED <<now, store, issued, logEnabled, login>>

\* the cache answers this.credentials.get
AwaitGet(c) ==
    /\ calls[c].pc = "get"
    /\ calls' = [calls EXCEPT
          ![c].value = CacheGet(calls[c].origin),
          ![c].cookies = <<>>,
          ![c].readAt = NullTime,
          ![c].reqReads = IF calls[c].stage = "request" THEN @ + 1 ELSE @,
          ![c].pc = IF calls[c].stage = "request" THEN "req_cookie" ELSE "merge"]
    /\ UNCHANGED <<now, ready, store, issued, logEnabled, login>>

\* the rest of getCookies and of request interceptor 2
ReqSetCookie(c) ==
    /\ calls[c].pc = "req_cookie"
    /\ calls' = [calls EXCEPT
          ![c].cookies = getCookiesFilter(calls[c].value, now),
          ![c].readAt = now,
          ![c].cookieSet = TRUE,
          ![c].cookie = serializeCookies(getCookiesFilter(calls[c].value, now)),
          ![c].pc = "fetch"]
    /\ UNCHANGED <<now, ready, store, issued, logEnabled, login>>

\* Fetch with the cookie capture left out for a credentials-omit request
Fetch_OmitSkipsCapture(c, lists) ==
    /\ calls[c].pc = "fetch"
    /\ \E body \in Bodies(calls[c].op) :
       \E status \in Statuses(calls[c].op, body) :
       \E sc \in lists :
          calls' = [calls EXCEPT
             ![c].response = [status |-> status, body |-> body, setCookie |-> sc],
             ![c].stage = "response",
             ![c].ran = IF calls[c].credentials = "omit" THEN @
                        ELSE Append(@, ResponseInterceptors[1]),
             ![c].pc = IF calls[c].credentials = "omit" THEN "res_log"
                       ELSE IF ready THEN "get" ELSE "start"]
    /\ UNCHANGED <<now, ready, store, issued, logEnabled, login>>

\* fetch answers; response interceptor 1 runs saveCookies up to the first
\* await of getCookies({ credentials: "include", url })
Fetch(c, lists) ==
    /\ calls[c].pc = "fetch"
    /\ \E body \in Bodies(calls[c].op) :
       \E status \in Statuses(calls[c].op, body) :
       \E sc \in lists :
          calls' = [calls EXCEPT
             ![c].response = [status |-> status, body |-> body, setCookie |-> sc],
             ![c].stage = "response",
             ![c].ran = Append(@, ResponseInterceptors[1]),
             ![c].pc = IF ready THEN "get" ELSE "start"]
    /\ UNCHANGED <<now, ready, store, issued, logEnabled, login>>

\* fetch rejects: the call rejects, no response interceptor runs
FetchFails(c) ==
    /\ calls[c].pc = "fetch"
    /\ calls' = [calls EXCEPT ![c].pc = "done", ![c].outcome = "threw"]
    /\ UNCHANGED <<now, ready, store, issued, logEnabled, login>>

\* saveCookies after getCookies' cache answer, up to its next await
SaveMerge(c) ==
    /\ calls[c].pc = "merge"
    /\ LET current == getCookiesFilter(calls[c].value, now)
           cookies == MergeCookies(current, calls[c].response.setCookie, now)
       IN  calls' = [calls EXCEPT ![c] =
             IF cookies = <<>>
             THEN [@ EXCEPT !.cookies = current, !.readAt = now,
                            !.pc = "res_log"]
             ELSE [@ EXCEPT
                     !.cookies = current, !.readAt = now,
                     !.pending = [cookies |-> cookies,
                                  ttl |-> SaveTtl(cookies, now),
                                  at |-> now],
                     !.pc = IF ready THEN "set" ELSE "start_set"]]
    /\ UNCHANGED <<now, ready, store, issued, logEnabled, login>>

\* AwaitSet merging the response again, into the entry the cache holds now
AwaitSet_MergesIntoCurrent(c) ==
    /\ calls[c].pc = "set"
    /\ store' = CacheSet(calls[c].origin,
                         MergeCookies(CacheGet(calls[c].origin).item,
                                      calls[c].response.setCookie,
                                      calls[c].pending.at),
                         calls[c].pending.ttl)
    /\ calls' = [calls EXCEPT ![c].pc = "res_log", ![c].sets = @ + 1]
    /\ UNCHANGED <<now, ready, issued, logEnabled, login>>

\* the cache performs this.credentials.set
AwaitSet(c) ==
    /\ calls[c].pc = "set"
    /\ store' = CacheSet(calls[c].origin, calls[c].pending.cookies,
                         calls[c].pending.ttl)
    /\ calls' = [calls EXCEPT ![c].pc = "res_log", ![c].sets = @ + 1]
    /\ UNCHANGED <<now, ready, issued, logEnabled, login>>

\* response interceptor 2: diagnostic logging, "await clone.json()"
ResLog(c) ==
    /\ calls[c].pc = "res_log"
    /\ calls' = [calls EXCEPT
          ![c].pc = "done",
          ![c].ran = Append(@, ResponseInterceptors[2]),
          ![c].outcome = IF logEnabled /\ ~IsJson(calls[c].response.body)
                         THEN "threw" ELSE "returned"]
    /\ UNCHANGED <<now, ready, store, issued, logEnabled, login>>

Pipeline(c, lists) ==
    \/ ReqLog(c)
    \/ ReqInject(c)
    \/ AwaitStart(c)
    \/ AwaitGet(c)
    \/ ReqSetCookie(c)
    \/ Fetch(c, lists)
    \/ FetchFails(c)
    \/ SaveMerge(c)
    \/ AwaitSet(c)
    \/ ResLog(c)

\* ------------------------------------------------------------ VRChat.login

\* login(...) up to "await getCurrentUser({ credentials: "omit", ... })"
LoginStart(secret, code) ==
    /\ login.pc = "off"
    /\ issued = 0
    /\ \A c \in CallIds : calls[c].pc = "idle"
    /\ calls' = [calls EXCEPT ![LoginCall] = FirstCall]
    /\ login' = [login EXCEPT
          !.pc = "first", !.twoFactorSecret = secret, !.twoFactorCode = code,
          !.fetches = @ + 1,
          !.events = Append(@, Event(FirstCall))]
    /\ UNCHANGED <<now, ready, store, issued, logEnabled>>

\* a call login awaits rejected: login rejects
LoginThrows ==
    /\ login.pc \in {"first", "factors", "second"}
    /\ calls[LoginCall].pc = "done"
    /\ calls[LoginCall].outcome = "threw"
    /\ login' = [login EXCEPT !.pc = "threw"]
    /\ UNCHANGED <<now, ready, store, calls, issued, logEnabled>>

Return(data, error, from) ==
    [login EXCEPT !.pc = "returned", !.data = data, !.error = error, !.from = from]

\* ReturnError replacing the error by one made with issue()
ReturnError_Wrapped(error) ==
    Return("undefined", issue("Login failed", error.status_code), 1)

\* if (error) return { data: undefined, error, request, response }
ReturnError(error) == Return("undefined", error, 1)

\* if (!twoFactorCode) return { data: undefined, error: issue(...), ... }
ReturnMissing ==
    Return("undefined",
           issue("Missing two-factor authentication, incomplete login flow", 400), 0)

\* ReturnUnverified with "data" for "data: undefined"
ReturnUnverified_KeepsData(factors) ==
    Return(DataOf(login.first), FactorError(factors), 0)

\* if (!verified) return { data: undefined, error: ..., request, response }
ReturnUnverified(factors) == Return("undefined", FactorError(factors), 0)

\* return { data, error: undefined, request, response }
ReturnDirect(data) == Return(data, NoError, 1)

\* return getCurrentUser({ client: this.client })
ReturnSecond(response) == Return(DataOf(response), ErrorOf(response), 2)

\* from the answer of the first getCurrentUser to "await twoFactorCode()"
LoginFirst ==
    /\ login.pc = "first"
    /\ calls[LoginCall].pc = "done"
    /\ calls[LoginCall].outcome = "returned"
    /\ LET response == calls[LoginCall].response
           data == DataOf(response)
           error == ErrorOf(response)
           provider == ResolveProvider(login.twoFactorSecret, login.twoFactorCode)
           outcome == FirstOutcome(data, error, provider)
       IN  login' =
             CASE outcome = "error" ->
                    [ReturnError(error) EXCEPT
                       !.first = response,
                       !.answers = Append(@, response.setCookie)]
               [] outcome = "missing" ->
                    [ReturnMissing EXCEPT
                       !.first = response,
                       !.answers = Append(@, response.setCookie)]
               [] outcome = "code" ->
                    [login EXCEPT
                       !.pc = "code", !.first = response,
                       !.provider = provider, !.invoked = @ + 1,
                       !.events = Append(@, ProviderEvent),
                       !.answers = Append(@, response.setCookie)]
               [] OTHER ->
                    [ReturnDirect(data) EXCEPT
                       !.first = response,
                       !.answers = Append(@, response.setCookie)]
    /\ UNCHANGED <<now, ready, store, calls, issued, logEnabled>>

\* the code arrives; the factor calls are dispatched under Promise.all
LoginCode ==
    /\ login.pc = "code"
    /\ \E length \in CodeLengths(login.provider) :
          /\ login' = [login EXCEPT
                !.pc = "factors", !.codeLength = length,
                !.verifies = IF length = CodeLength THEN @ + 1 ELSE @,
                !.events = IF length = CodeLength
                           THEN Append(@, Event(FactorCall))
                           ELSE @]
          /\ calls' = IF length = CodeLength
                      THEN [calls EXCEPT ![LoginCall] = FactorCall]
                      ELSE calls
    /\ UNCHANGED <<now, ready, store, issued, logEnabled>>

\* Promise.all settled: classification, then the second getCurrentUser
LoginClassify ==
    /\ login.pc = "factors"
    /\ \/ login.codeLength # CodeLength
       \/ /\ calls[LoginCall].op = "verify2Fa"
          /\ calls[LoginCall].pc = "done"
          /\ calls[LoginCall].outcome = "returned"
    /\ LET factors == << IF login.codeLength = CodeLength
                         THEN FactorOf(calls[LoginCall].response)
                         ELSE NoFactor >>
           answers == IF login.codeLength = CodeLength
                      THEN Append(login.answers, calls[LoginCall].response.setCookie)
                      ELSE login.answers
       IN  IF ~Verified(factors)
           THEN /\ login' = [ReturnUnverified(factors) EXCEPT
                               !.factors = factors, !.answers = answers]
                /\ calls' = calls
           ELSE /\ login' = [login EXCEPT
                      !.pc = "second", !.factors = factors, !.fetches = @ + 1,
                      !.events = Append(@, Event(SecondCall)),
                      !.answers = answers]
                /\ calls' = [calls EXCEPT ![LoginCall] = SecondCall]
    /\ UNCHANGED <<now, ready, store, issued, logEnabled>>

\* "return getCurrentUser({ client: this.client })"
LoginSecond ==
    /\ login.pc = "second"
    /\ calls[LoginCall].pc = "done"
    /\ calls[LoginCall].outcome = "returned"
    /\ login' = ReturnSecond(calls[LoginCall].response)
    /\ UNCHANGED <<now, ready, store, calls, issued, logEnabled>>

Login ==
    \/ \E secret \in {"undefined", "", "SECRET"}, code \in {"undefined", "function"} :
          LoginStart(secret, code)
    \/ LoginThrows
    \/ LoginFirst
    \/ LoginCode
    \/ LoginClassify
    \/ LoginSecond

Next ==
    \/ Tick
    \/ StartDone
    \/ Evict(BaseOrigin)
    \/ \E cred \in {"omit", "same-origin"} : IssueRequest(1, BaseOrigin, cred)
    \/ Deliver(1)
    \/ Pipeline(1, SetCookieLists)

\* calls of outside callers, one at a time, to the base origin
Spec == Init /\ [][Next]_vars

NextLogin ==
    \/ Tick
    \/ StartDone
    \/ Evict(BaseOrigin)
    \/ Pipeline(LoginCall, LoginSetCookieLists)
    \/ Login

\* one activation of login and the calls it makes
SpecLogin == Init /\ [][NextLogin]_vars

\* ------------------------------------------------- inputs of deseralizeCookie
\* An attribute of a Set-Cookie header as the server writes it, with what it
\* says: the seconds of a max-age, the time of an expires (NaN: the text is
\* not a number / not a date).
CookieAttributes ==
    { [text |-> << " ", "M", "a", "x", "-", "A", "g", "e", "=", "1" >>,
       kind |-> "max-age", seconds |-> 1, time |-> NaN],
      [text |-> << "M", "A", "X", "-", "A", "G", "E", " ", "=", "2" >>,
       kind |-> "max-age", seconds |-> 2, time |-> NaN],
      [text |-> << " ", "m", "a", "x", "-", "a", "g", "e", "=", "0" >>,
       kind |-> "max-age", seconds |-> 0, time |-> NaN],
      [text |-> << " ", "M", "a", "x", "-", "A", "g", "e", "=", "x" >>,
       kind |-> "max-age", seconds |-> NaN, time |-> NaN],
      [text |-> << " ", "E", "x", "p", "i", "r", "e", "s", "=", "T", "2" >>,
       kind |-> "expires", seconds |-> NaN, time |-> 2 * MsPerSec],
      [text |-> << "e", "x", "p", "i", "r", "e", "s", "=", "j", "u", "n", "k" >>,
       kind |-> "expires", seconds |-> NaN, time |-> NaN],
      [text |-> << " ", "H", "t", "t", "p", "O", "n", "l", "y" >>,
       kind |-> "other", seconds |-> NaN, time |-> NaN] }

\* the attributes of one header: none, one, or a max-age and an expires
AttributeLists ==
    {<<>>} \cup {<<x>> : x \in CookieAttributes}
           \cup {<<x, y>> : x \in {z \in CookieAttributes : z.kind = "max-age"},
                            y \in {z \in CookieAttributes : z.kind = "expires"}}
           \cup {<<y, x>> : x \in {z \in CookieAttributes : z.kind = "max-age"},
                            y \in {z \in CookieAttributes : z.kind = "expires"}}

\* the header "a=1;<attribute>;<attribute>"
HeaderOf(attributes) ==
    JoinWith(<< << "a", "=", "1" >> >>
             \o [i \in 1..Len(attributes) |-> attributes[i].text], <<";">>)

ParseLists == {<<HeaderOf(attributes)>> : attributes \in AttributeLists}

NextParse ==
    \/ Tick
    \/ StartDone
    \/ Evict(BaseOrigin)
    \/ \E cred \in {"omit", "same-origin"} : IssueRequest(1, BaseOrigin, cred)
    \/ Deliver(1)
    \/ Pipeline(1, ParseLists)

\* calls whose responses carry one Set-Cookie header with any attributes
SpecParse == Init /\ [][NextParse]_vars

\* responses to concurrent calls: "a=1" or "b=1; Expires=T2"
RaceLists == {<<h>> : h \in {x \in SetCookieHeaders : ~HasMaxAge(x)}}

NextRace ==
    \/ Tick
    \/ StartDone
    \/ Evict(BaseOrigin)
    \/ \E c \in CallIds : IssueRequest(c, BaseOrigin, "same-origin")
    \/ \E c \in CallIds : Pipeline(c, RaceLists)

\* two calls of outside callers in flight together, to the base origin,
\* each followed until it has settled
SpecRace == Init /\ [][NextRace]_vars

\* The servers of the two origins set cookies of the same names and of
\* values of their own: "a=1" and "b=1; Expires=T2" at the base origin,
\* "a=9" and "b=9; Expires=T2" at the other.
OriginValue(o) == IF o = BaseOrigin THEN "1" ELSE "9"

OriginLists(o) ==
    {<<>>} \cup { << [i \in 1..Len(h) |-> IF i = 3 THEN OriginValue(o) ELSE h[i]] >> :
                    h \in {x \in SetCookieHeaders : ~HasMaxAge(x)} }

NextOrigins ==
    \/ Tick
    \/ StartDone
    \/ \E o \in Origins : Evict(o)
    \/ \E o \in Origins, cred \in {"omit", "same-origin"} : IssueRequest(1, o, cred)
    \/ Deliver(1)
    \/ Pipeline(1, OriginLists(calls[1].origin))

\* calls of outside callers, one at a time, to either origin
SpecOrigins == Init /\ [][NextOrigins]_vars

\* ================================================================== claims

\* a stored entry that has not expired at time t
Unexpired(e, t) == e.expires = NullTime \/ e.expires > t

UnexpiredOf(item, t) == SelectSeq(item, LAMBDA e : Unexpired(e, t))

\* C1: whatever collection the cache answers and whatever the read time,
\* getCookies returns exactly the stored entries whose expiresAt is null or
\* strictly greater than the read time.
C1_GetCookiesReturnsUnexpired ==
    \A c \in CallIds :
        (calls[c].readAt # NullTime /\ calls[c].value.found)
        => calls[c].cookies = UnexpiredOf(calls[c].value.item, calls[c].readAt)

\* the non-null expiresAt values of a collection
ExpiriesOf(cookies) ==
    {cookies[i].expires : i \in 1..Len(cookies)} \ {NullTime}

SoonestExpiry(cookies) ==
    CHOOSE m \in ExpiriesOf(cookies) : \A x \in ExpiriesOf(cookies) : m <= x

\* C2: the ttl saveCookies passes to set is max(m - now, 0) for m the soonest
\* non-null expiresAt of the merged collection, and Infinity when no entry
\* has an expiry.
C2_TtlTracksSoonestExpiry ==
    \A c \in CallIds :
        calls[c].pc \in {"set", "start_set"}
        => calls[c].pending.ttl =
              IF ExpiriesOf(calls[c].pending.cookies) = {} THEN Infinity
              ELSE Max(SoonestExpiry(calls[c].pending.cookies) - calls[c].pending.at, 0)

HasCookie(cookies, name, value) ==
    \E j \in 1..Len(cookies) : cookies[j].name = name /\ cookies[j].value = value

\* the name and the value a Set-Cookie header gives its cookie
HeaderName(header) == SubSeq(header, 1, 1)
HeaderValue(header) == SubSeq(header, 3, 3)

HeaderNames(headers) == {HeaderName(headers[i]) : i \in 1..Len(headers)}

\* C3: saveCookies merges: the collection it writes holds every unexpired
\* cookie (session, or expiry in the future) of the entry the earlier save left
\* in the cache, with the earlier value unless the response sets that name, and
\* every cookie of the response, with the value of its last Set-Cookie.
C3_SaveCookiesMerges ==
    \A c \in CallIds :
        (calls[c].pc = "set" /\ calls[c].value.found)
        => LET old == calls[c].value.item
               new == calls[c].response.setCookie
               jar == calls[c].pending.cookies
           IN  /\ \A i \in 1..Len(old) :
                     (Unexpired(old[i], calls[c].pending.at)
                        /\ old[i].name \notin HeaderNames(new))
                     => HasCookie(jar, old[i].name, old[i].value)
               /\ \A i \in 1..Len(new) :
                     (\A k \in (i + 1)..Len(new) :
                         HeaderName(new[k]) # HeaderName(new[i]))
                     => HasCookie(jar, HeaderName(new[i]), HeaderValue(new[i]))

\* C8: a request issued with credentials "omit" has, once its request stage is
\* over, read the cache not once and carries an empty cookie header, whatever
\* the jar holds for its origin.
C8_OmitNeverReadsJar ==
    \A c \in CallIds :
        (calls[c].credentials = "omit"
           /\ calls[c].pc \notin {"idle", "req_log", "req_inject"})
        => /\ calls[c].reqReads = 0
           /\ calls[c].cookieSet
           /\ calls[c].cookie = <<>>

\* C8 witness: an "omit" request is at fetch while the jar of its origin holds
\* a session cookie
C8_Witness ==
    \E c \in CallIds :
        /\ calls[c].credentials = "omit"
        /\ calls[c].pc = "fetch"
        /\ store[calls[c].origin].found
        /\ \E i \in 1..Len(store[calls[c].origin].item) :
              store[calls[c].origin].item[i].expires = NullTime

FirstFetchEvent ==
    [ev |-> "getCurrentUser", credentials |-> "omit", authorization |-> TRUE]

\* C4: when the first getCurrentUser answers an identity record (no error, no
\* requiresTwoFactorAuth), login returns it as data with error undefined, after
\* one getCurrentUser, no verify2Fa and no call of the code provider.
C4_DirectLogin ==
    login.first.body = "user"
    => /\ login.pc = "returned"
       /\ login.data = "user"
       /\ login.error = NoError
       /\ login.from = 1
       /\ login.fetches = 1
       /\ login.verifies = 0
       /\ login.invoked = 0
       /\ login.events = <<FirstFetchEvent>>

\* C4 witness: a direct login by a caller who supplied a secret
C4_Witness ==
    /\ login.pc = "returned"
    /\ login.first.body = "user"
    /\ login.twoFactorSecret = "SECRET"

\* C5: on requiresTwoFactorAuth with neither twoFactorSecret nor twoFactorCode,
\* login returns the error ("Missing two-factor authentication, incomplete
\* login flow", 400) with data undefined and makes no call after the first.
C5_MissingFactorInput ==
    (/\ login.first.body = "requiresTwoFactorAuth"
     /\ login.twoFactorSecret = "undefined"
     /\ login.twoFactorCode = "undefined")
    => /\ login.pc = "returned"
       /\ login.data = "undefined"
       /\ login.error =
             [message |-> "Missing two-factor authentication, incomplete login flow",
              status_code |-> 400]
       /\ login.fetches = 1
       /\ login.verifies = 0
       /\ login.invoked = 0
       /\ login.events = <<FirstFetchEvent>>
       /\ calls[LoginCall].credentials = "omit"
       /\ calls[LoginCall].pc = "done"

\* C5 witness: login has returned on a factor-required answer without inputs
C5_Witness ==
    /\ login.pc = "returned"
    /\ login.first.body = "requiresTwoFactorAuth"
    /\ login.twoFactorSecret = "undefined"
    /\ login.twoFactorCode = "undefined"

AnyVerified == \E i \in 1..Len(login.factors) :
    login.factors[i].defined /\ login.factors[i].verified

AnyRateLimited == \E i \in 1..Len(login.factors) :
    login.factors[i].defined /\ login.factors[i].status = 429

\* C6: once the factor results are in, a verified result sends login on to the
\* second getCurrentUser even beside a 429; else a 429 gives ("Too many
\* attempts, try again later", 429); else ("Invalid two-factor authentication
\* code", 400); both failures with data undefined and no second getCurrentUser.
C6_FactorClassification ==
    login.factors # <<>>
    => IF AnyVerified
       THEN /\ login.fetches = 2
            /\ login.pc \in {"second", "returned", "threw"}
            /\ login.pc = "returned" => login.from = 2
       ELSE /\ login.pc = "returned"
            /\ login.data = "undefined"
            /\ login.fetches = 1
            /\ login.error =
                  IF AnyRateLimited
                  THEN [message |-> "Too many attempts, try again later",
                        status_code |-> 429]
                  ELSE [message |-> "Invalid two-factor authentication code",
                        status_code |-> 400]

\* C6 witness: login returned after an unverified result with status 429
C6_Witness ==
    /\ login.pc = "returned"
    /\ login.factors # <<>>
    /\ ~AnyVerified
    /\ AnyRateLimited

\* C7: with a verified factor result, login has issued, in this order, the
\* first getCurrentUser (credentials omit, authorization header), the code
\* provider, verify2Fa, and a second getCurrentUser without credentials omit
\* and without authorization; what it returns is the answer of the second.
C7_SuccessOrder ==
    (login.factors # <<>> /\ AnyVerified)
    => /\ login.events =
            << FirstFetchEvent,
               [ev |-> "twoFactorCode", credentials |-> "none", authorization |-> FALSE],
               [ev |-> "verify2Fa", credentials |-> "same-origin", authorization |-> FALSE],
               [ev |-> "getCurrentUser", credentials |-> "same-origin",
                authorization |-> FALSE] >>
       /\ calls[LoginCall].op = "getCurrentUser"
       /\ calls[LoginCall].credentials # "omit"
       /\ ~calls[LoginCall].authorization
       /\ login.pc = "returned"
          => /\ login.from = 2
             /\ login.data = DataOf(calls[LoginCall].response)
             /\ login.error = ErrorOf(calls[LoginCall].response)

\* C7 witness: login with a secret returned the identity of the second fetch
C7_Witness ==
    /\ login.pc = "returned"
    /\ login.first.body = "requiresTwoFactorAuth"
    /\ login.provider = "totp"
    /\ AnyVerified
    /\ login.data = "user"

\* C9: when the first getCurrentUser answers an error, login returns that error
\* as it is with data undefined: no provider call, no verify2Fa, no second
\* getCurrentUser.
C9_ErrorPassThrough ==
    login.first.body \in {"error", "not json"}
    => /\ login.pc = "returned"
       /\ login.error =
             [message |-> login.first.body, status_code |-> login.first.status]
       /\ login.data = "undefined"
       /\ login.fetches = 1
       /\ login.verifies = 0
       /\ login.invoked = 0
       /\ login.events = <<FirstFetchEvent>>

\* C9 witness: the first fetch of a login with a code provider answered an error
C9_Witness ==
    /\ login.pc = "returned"
    /\ login.first.body = "error"
    /\ login.twoFactorCode = "function"

\* C10: whenever login has returned, exactly one of data and error is set.
C10_DataXorError ==
    login.pc = "returned"
    => (login.data # "undefined") # (login.error # NoError)

\* C10 witness: login returned the error of the second getCurrentUser
C10_Witness ==
    /\ login.pc = "returned"
    /\ login.from = 2
    /\ login.error # NoError

\* ---- C11
\* position in login.events of the first event named ev, 0 when there is none
FirstEventAt(ev) ==
    IF \E i \in 1..Len(login.events) : login.events[i].ev = ev
    THEN CHOOSE i \in 1..Len(login.events) :
            /\ login.events[i].ev = ev
            /\ \A j \in 1..(i - 1) : login.events[j].ev # ev
    ELSE 0

FactorRequired == login.first.body = "requiresTwoFactorAuth"

\* the provider is invoked at most once, only after a factor-required
\* answer, and before any verification call
ProviderInvokedInOrder ==
    /\ login.invoked <= 1
    /\ login.invoked = 1 => FactorRequired
    /\ login.invoked = 1 <=> FirstEventAt("twoFactorCode") # 0
    /\ login.verifies > 0 =>
          /\ login.invoked = 1
          /\ FirstEventAt("twoFactorCode") < FirstEventAt("verify2Fa")
    /\ Cardinality({i \in 1..Len(login.events) :
                       login.events[i].ev = "twoFactorCode"}) = login.invoked

ClaimedExpires(attributes, t) ==
    LET maxAges == {i \in 1..Len(attributes) :
                      attributes[i].kind = "max-age" /\ attributes[i].seconds # NaN}
        dates   == {i \in 1..Len(attributes) :
                      attributes[i].kind = "expires" /\ attributes[i].time # NaN}
    IN  IF maxAges # {}
        THEN t + attributes[CHOOSE i \in maxAges : TRUE].seconds * MsPerSec
        ELSE IF dates # {}
             THEN attributes[CHOOSE i \in dates : TRUE].time
             ELSE NullTime

\* C12: a header parsed at time t gives its cookie the expiry t + maxAge *
\* 1000 when it has a numeric max-age (whatever the case and the spaces of
\* the attribute name, and whether or not an expires is there too), else the
\* time of its expires attribute when that is a date (also when a max-age
\* that is not a number is present), else null.
C12_ParsedExpiry ==
    \A c \in CallIds : \A attributes \in AttributeLists :
        (/\ calls[c].pending # NoPending
         /\ calls[c].response.setCookie = <<HeaderOf(attributes)>>)
        => \E i \in 1..Len(calls[c].pending.cookies) :
              /\ calls[c].pending.cookies[i].name = <<"a">>
              /\ calls[c].pending.cookies[i].value = <<"1">>
              /\ calls[c].pending.cookies[i].expires
                    = ClaimedExpires(attributes, calls[c].pending.at)

\* ---- C13
\* the cookie header has the pair name=value
InCookieHeader(cookie, name, value) ==
    LET pair == name \o <<"=">> \o value
    IN  \E i \in 1..Len(cookie) :
           /\ i + Len(pair) - 1 <= Len(cookie)
           /\ SubSeq(cookie, i, i + Len(pair) - 1) = pair
           /\ i = 1 \/ cookie[i - 1] = " "
           /\ i + Len(pair) - 1 = Len(cookie) \/ cookie[i + Len(pair)] = ";"

\* an answer login has taken set the cookie name=value
SetByAnAnswer(name, value) ==
    \E k \in 1..Len(login.answers) : \E i \in 1..Len(login.answers[k]) :
        /\ HeaderName(login.answers[k][i]) = name
        /\ HeaderValue(login.answers[k][i]) = value

\* C13: when login has built the verification request or the second
\* identity-fetch request, the capture of the answers before it is complete
\* (the jar it read has every cookie name the last answer set, unless the
\* entry was evicted), and every cookie an earlier answer set that is in the
\* jar and unexpired at the time of the read is in the cookie header as
\* name=value.
C13_CookiesReachNextRequest ==
    LET call == calls[LoginCall]
    IN  (/\ login.pc \in {"factors", "second"}
         /\ call.pc = "fetch"
         /\ call.value.found)
        => /\ \A name \in HeaderNames(login.answers[Len(login.answers)]) :
                 \E i \in 1..Len(call.value.item) : call.value.item[i].name = name
           /\ \A i \in 1..Len(call.value.item) :
                 (/\ Unexpired(call.value.item[i], call.readAt)
                  /\ SetByAnAnswer(call.value.item[i].name, call.value.item[i].value))
                 => InCookieHeader(call.cookie, call.value.item[i].name,
                                   call.value.item[i].value)

\* ---- C14
\* call c performs its cache set in this step
SetsBy(c) == calls[c].pc = "set" /\ calls'[c].sets = calls[c].sets + 1

\* C14: no exclusion orders two saveCookies of one origin: the entry changes
\* only by an eviction or by the set of one call, and after a set it is
\* exactly the collection and the TTL that call computed from its own read
\* and its own response, whatever another call wrote in between.
C14_LastWriteWins ==
    [][\A o \in Origins :
          store'[o] # store[o] =>
             \/ store'[o] = NoEntry
             \/ \E c \in CallIds :
                   /\ SetsBy(c)
                   /\ calls[c].origin = o
                   /\ store'[o].item = calls[c].pending.cookies
                   /\ store'[o].ttl = calls[c].pending.ttl
                   /\ calls[c].pending.cookies
                        = MergeCookies(getCookiesFilter(calls[c].value,
                                                        calls[c].pending.at),
                                       calls[c].response.setCookie,
                                       calls[c].pending.at)
                   /\ calls[c].pending.ttl
                        = SaveTtl(calls[c].pending.cookies, calls[c].pending.at)]_vars

\* both calls read the empty jar before either wrote, both have written,
\* and the entry is the collection of call 2 alone: the cookie call 1 wrote
\* is lost
C14_Witness ==
    /\ \A c \in CallIds :
          /\ calls[c].stage = "response"
          /\ ~calls[c].value.found
          /\ calls[c].sets = 1
    /\ calls[1].pending.cookies # calls[2].pending.cookies
    /\ store[BaseOrigin].found
    /\ store[BaseOrigin].item = calls[2].pending.cookies
    /\ \E i \in 1..Len(calls[1].pending.cookies) :
          \A k \in 1..Len(store[BaseOrigin].item) :
             store[BaseOrigin].item[k].name # calls[1].pending.cookies[i].name

\* ---- C15
\* C15: for a response without Set-Cookie header, saveCookies performs no
\* cache set, and the entry stays what it was when saveCookies read it
\* (collection and TTL), unless the cache has evicted it.
C15_NoSetCookieNoWrite ==
    \A c \in CallIds :
        (/\ calls[c].stage = "response"
         /\ calls[c].response # NoResponse
         /\ calls[c].response.setCookie = <<>>)
        => /\ calls[c].pc \notin {"set", "start_set"}
           /\ calls[c].sets = 0
           /\ calls[c].pc \in {"res_log", "done"} =>
                 \/ store[calls[c].origin] = calls[c].value
                 \/ store[calls[c].origin] = NoEntry

\* ---- C16
\* call c comes to one of these places in this step
EntersPc(c, pcs) == calls[c].pc \notin pcs /\ calls'[c].pc \in pcs

\* C16: in every interleaving of the constructor's start() and two calls,
\* cache.get and cache.set are invoked and performed only while the cache is
\* ready; a jar operation that finds the cache not ready awaits start()
\* first; and start() is called by a jar operation only when it finds the
\* cache not ready.
C16_ReadinessGate ==
    [][\A c \in CallIds :
          /\ EntersPc(c, {"get", "set"}) =>
                /\ ready'
                /\ ~ready => calls[c].pc \in {"start", "start_set"}
          /\ (calls[c].pc \in {"get", "set"} /\ calls'[c] # calls[c]) => ready
          /\ EntersPc(c, {"start", "start_set"}) => ~ready]_vars

\* two calls found the cache not ready before the constructor's start() had
\* completed; the start() call 1 awaited has completed and call 1 is at its
\* cache get, call 2 still awaits
C16_Witness ==
    /\ ready
    /\ calls[1].pc = "get"
    /\ calls[1].stage = "request"
    /\ calls[2].pc = "start"

\* ---- C17
\* C17: the interceptors of a call run in the order request logging, cookie
\* injection, cookie capture, response logging, each complete before the
\* next begins; the cache write of the capture is done before the response is
\* delivered; and the capture runs on every response, also on the response
\* to a credentials-omit request.
C17_InterceptionOrder ==
    \A c \in CallIds :
        LET call == calls[c]
            order == RequestInterceptors \o ResponseInterceptors
        IN  /\ Len(call.ran) <= Len(order)
            /\ call.ran = SubSeq(order, 1, Len(call.ran))
            /\ (call.stage = "request"
                 /\ call.pc \in {"start", "get", "req_cookie"}) =>
                  Len(call.ran) = 2 /\ ~call.cookieSet
            /\ call.pc = "fetch" => Len(call.ran) = 2 /\ call.cookieSet
            /\ call.response # NoResponse =>
                  /\ Len(call.ran) >= 3
                  /\ call.stage = "response"
            /\ (call.stage = "response"
                 /\ call.pc \in {"start", "get", "merge", "start_set", "set"}) =>
                  Len(call.ran) = 3
            /\ call.pc = "set" => call.sets = 0
            /\ (call.response # NoResponse /\ call.pc \in {"res_log", "done"}) =>
                  /\ call.readAt # NullTime
                  /\ call.pending # NoPending => call.sets = 1
            /\ (call.pc = "done" /\ call.outcome = "returned") =>
                  call.ran = order

\* a credentials-omit call has returned: all four interceptors ran and its
\* capture wrote the cookies of the response
C17_Witness ==
    /\ calls[1].pc = "done"
    /\ calls[1].outcome = "returned"
    /\ calls[1].credentials = "omit"
    /\ calls[1].ran = RequestInterceptors \o ResponseInterceptors
    /\ calls[1].response.setCookie # <<>>
    /\ calls[1].sets = 1
    /\ store[BaseOrigin].item = calls[1].pending.cookies

\* ---- C18
\* C18: when the code the provider answered does not have 6 characters,
\* login makes no verification call, the absent factor result counts neither
\* as verified nor as rate limited, and login returns ("Invalid two-factor
\* authentication code", 400) with no data and without a second
\* identity-fetch.
C18_WrongLengthCode ==
    login.codeLength \notin {0, CodeLength} =>
        /\ login.invoked = 1
        /\ login.verifies = 0
        /\ login.fetches = 1
        /\ \A i \in 1..Len(login.events) : login.events[i].ev # "verify2Fa"
        /\ login.pc \in {"factors", "returned"}
        /\ calls[LoginCall].op # "verify2Fa"
        /\ login.pc = "returned" =>
              /\ Len(login.factors) = 1
              /\ ~AnyVerified
              /\ ~AnyRateLimited
              /\ login.data = "undefined"
              /\ login.error.message = "Invalid two-factor authentication code"
              /\ login.error.status_code = 400

\* the caller's provider answered a code of 8 characters and login returned
C18_Witness ==
    /\ login.codeLength = CodeLength + 2
    /\ login.provider = "caller"
    /\ login.pc = "returned"
    /\ login.error.status_code = 400

\* ---- C19
\* C19: diagnostics never break a call: with diagnostics enabled or not, and
\* whatever the body of the response (JSON or not), a call whose response
\* has arrived passes every interceptor and returns; no logging stage raises.
C19_DiagnosticsNeverBreak ==
    \A c \in CallIds :
        (calls[c].pc = "done" /\ calls[c].response # NoResponse)
        => /\ calls[c].outcome = "returned"
           /\ calls[c].ran = RequestInterceptors \o ResponseInterceptors

\* ---- C20
\* every cookie of the collection has the value the servers of origin o set
OnlyFrom(o, cookies) ==
    \A i \in 1..Len(cookies) : cookies[i].value = <<OriginValue(o)>>

\* the cookie header has no value a server of another origin set
HeaderOnlyFrom(o, cookie) ==
    \A i \in 1..Len(cookie) : \A other \in Origins \ {o} :
        cookie[i] # OriginValue(other)

\* C20: the jar of an origin holds, a request to the origin reads, and the
\* cookie header of the request carries only cookies captured from responses
\* of that origin; and the cache set of a saveCookies for one origin leaves
\* the entry of every other origin as it was.
C20_OriginIsolation ==
    /\ [](/\ \A o \in Origins : OnlyFrom(o, store[o].item)
          /\ \A c \in CallIds :
                /\ OnlyFrom(calls[c].origin, calls[c].value.item)
                /\ OnlyFrom(calls[c].origin, calls[c].cookies)
                /\ OnlyFrom(calls[c].origin, calls[c].pending.cookies)
                /\ HeaderOnlyFrom(calls[c].origin, calls[c].cookie))
    /\ [][\A c \in CallIds : \A o \in Origins \ {calls[c].origin} :
             SetsBy(c) => store'[o] = store[o]]_vars

\* the jar of the base origin holds "a=1"; a request to the other origin
\* has read the jar of its own origin, found nothing, and goes out with an
\* empty cookie header
C20_Witness ==
    /\ store[BaseOrigin].found
    /\ \E i \in 1..Len(store[BaseOrigin].item) :
          /\ store[BaseOrigin].item[i].name = <<"a">>
          /\ store[BaseOrigin].item[i].expires = NullTime
    /\ calls[1].origin # BaseOrigin
    /\ calls[1].credentials = "same-origin"
    /\ calls[1].pc = "fetch"
    /\ calls[1].reqReads = 1
    /\ ~calls[1].value.found
    /\ calls[1].cookie = <<>>

====
